---------------------------- MODULE Spec2Model ----------------------------
(***************************************************************************)
(* A model of data_processing/signal_extraction.py (class DataExtractor): *)
(* the dataset curation of extract, the finite-difference recurrence of   *)
(* calculate_delta, and the normalisation and column layout produced by   *)
(* get_power_spectrum and get_mfccs.                                       *)
(*                                                                         *)
(* Python arrays are 0-based; an array of length n is modelled as a       *)
(* function over 0 .. n-1.  Python lists that the code builds by append   *)
(* (valid_indices, noisy_indices) and label arrays are TLA+ sequences.    *)
(* Real arithmetic is exact: a number is a reduced fraction <<num, den>>  *)
(* and every non-finite IEEE value (nan, inf, -inf) is the one value      *)
(* NonFinite.                                                              *)
(***************************************************************************)
EXTENDS Integers, Sequences, FiniteSets, TLC

VARIABLES
    pc,               \* "start" before the modelled call, "done" after it
    \* ---- extract ----
    raw_features,     \* data['Feat_cell']:   index -> [len, tag]
    raw_labels,       \* data['Lab_cell']:    index -> sequence of labels
    raw_patient_ids,  \* data['Number_cell']: index -> patient id
    patch_size,
    filter_noisy,
    extract_ret,      \* what extract returned (or the exception it raised)
    printed,          \* the count printed at line 137, None if nothing was
    \* ---- calculate_delta ----
    coefficients,
    other,            \* a second array of the same shape
    delta_diff,
    delta_ret,        \* the three arrays calculate_delta returned
    \* ---- get_mfccs / get_power_spectrum ----
    data,             \* per recording, the (channels, windows) array the
                      \* external transform (librosa mfcc / scipy stft) gave
    delta,            \* the delta flag of get_mfccs
    delta_delta,      \* the delta_delta flag of get_mfccs
    feat_ret          \* the object array the extractor returned

vars == <<pc, raw_features, raw_labels, raw_patient_ids, patch_size,
          filter_noisy, extract_ret, printed, coefficients, other,
          delta_diff, delta_ret, data, delta, delta_delta, feat_ret>>

extractVars == <<raw_features, raw_labels, raw_patient_ids, patch_size,
                 filter_noisy, extract_ret, printed>>
deltaVars == <<coefficients, other, delta_ret>>
featVars == <<data, delta, delta_delta, feat_ret>>

None == "None"

-----------------------------------------------------------------------------
(* Bounds of the model.                                                    *)

NumRecordings == 2
MaxWindows == 3
MaxSpan == 2

-----------------------------------------------------------------------------
(* extract                                                                 *)

Indices == 0 .. NumRecordings - 1

Labels == 1 .. 4

\* Lengths of the recordings and patch sizes that are tried.
FeatureLengths == {50, 150, 200}
PatchSizes == {100, 150}

\* Label arrays that are tried: every adjacent pair of labels, and the two
\* sequences the specification names.  (The code reads the label array and
\* the feature array independently; it never compares their lengths.)
LabelSeqs ==
    {<<a, b>> : a \in Labels, b \in Labels}
        \cup {<<1, 2, 3, 4, 1, 2>>, <<1, 2, 1, 4>>}

PatientOf(j) == 1000 + j

\* range(n) as a list
RangeList(n) == [k \in 1 .. n |-> k - 1]

SeqToSet(s) == {s[k] : k \in 1 .. Len(s)}

\* (faulty variant: a strict comparison)
LengthOkStrict(feats, j, p) == feats[j].len > p
\* len(raw_features[j]) >= patch_size
LengthOk(feats, j, p) == feats[j].len >= p

\* (faulty variant: the lengths of the length-valid recordings only)
LengthSoundsOfValid(feats, p) ==
    [j \in {i \in DOMAIN feats : feats[i].len >= p} |-> feats[j].len]
\* length_sounds = np.array([len(raw_features[j]) for j in range(n)])
LengthSounds(feats, p) == [j \in DOMAIN feats |-> feats[j].len]

\* valid_indices = [j for j in range(n) if len(raw_features[j]) >= patch_size]
LengthValid(feats, p) ==
    LET Keep(j) == LengthOk(feats, j, p)
    IN  SelectSeq(RangeList(Cardinality(DOMAIN feats)), Keep)

\* lab = lab - 1
ZeroBased(lab) == [k \in 1 .. Len(lab) |-> lab[k] - 1]

\* (faulty variant: the advance is not taken modulo 4)
NoisyStepNoWrap(lab, t) ==
    /\ lab[t + 1] # lab[t]
    /\ lab[t + 1] # lab[t] + 1
\* lab[t] != lab[t - 1] and lab[t] != (lab[t - 1] + 1) % 4, for the Python
\* index t in 1 .. len(lab)-1 (position t+1 of the sequence)
NoisyStep(lab, t) ==
    /\ lab[t + 1] # lab[t]
    /\ lab[t + 1] # (lab[t] + 1) % 4

\* the appends the inner loop makes for one recording: one per noisy step
NoisyAppends(lab, j) ==
    LET z == ZeroBased(lab)
        k == Cardinality({t \in 1 .. Len(z) - 1 : NoisyStep(z, t)})
    IN  [i \in 1 .. k |-> j]

\* noisy_indices after the loop over enumerate(labels_)
RECURSIVE NoisyIndices(_, _)
NoisyIndices(labs, valid) ==
    IF valid = <<>> THEN <<>>
    ELSE NoisyAppends(labs[Head(valid)], Head(valid))
             \o NoisyIndices(labs, Tail(valid))

\* list(S): the elements of a Python set in some order.  The language leaves
\* the iteration order of a set unspecified (CPython: the slot order of the
\* hash table, e.g. list({1, 8}) == [8, 1]), so every order is possible.
SetOrders(S) ==
    {s \in [1 .. Cardinality(S) -> S] :
        \A a, b \in 1 .. Cardinality(S) : a # b => s[a] # s[b]}

\* arr[valid_indices] for a non-empty integer index array
Reindex(arr, idx) == [k \in 1 .. Len(idx) |-> arr[idx[k]]]

Raised(exc, line) ==
    [outcome |-> exc, line |-> line, valid_indices |-> <<>>,
     features |-> <<>>, labels |-> <<>>, patient_ids |-> <<>>,
     length_sounds |-> <<>>]

\* lines 138-142.  np.array([]) has dtype float64, and indexing an array
\* with it raises IndexError.
Finish(valid, length_sounds) ==
    IF valid = <<>> THEN Raised("IndexError", 138)
    ELSE [outcome |-> "ok", line |-> 142, valid_indices |-> valid,
          features |-> Reindex(raw_features, valid),
          labels |-> Reindex(raw_labels, valid),
          patient_ids |-> Reindex(raw_patient_ids, valid),
          length_sounds |-> length_sounds]

InitExtract ==
    /\ pc = "start"
    /\ \E lens \in [Indices -> FeatureLengths] :
           raw_features = [j \in Indices |-> [len |-> lens[j], tag |-> j]]
    /\ raw_labels \in [Indices -> LabelSeqs]
    /\ raw_patient_ids = [j \in Indices |-> PatientOf(j)]
    /\ patch_size \in PatchSizes
    /\ filter_noisy \in BOOLEAN
    /\ extract_ret = None
    /\ printed = None
    /\ coefficients = None /\ other = None /\ delta_diff = 0
    /\ delta_ret = None
    /\ data = None /\ delta = FALSE /\ delta_delta = FALSE /\ feat_ret = None

Extract ==
    /\ pc = "start"
    /\ pc' = "done"
    /\ LET length_sounds == LengthSounds(raw_features, patch_size)
           valid == LengthValid(raw_features, patch_size)
       IN  IF ~filter_noisy
           THEN /\ extract_ret' = Finish(valid, length_sounds)
                /\ printed' = None
           ELSE IF valid = <<>>
           THEN \* line 128: raw_labels[valid_indices], a float64 index
                /\ extract_ret' = Raised("IndexError", 128)
                /\ printed' = None
           ELSE LET noisy_indices == NoisyIndices(raw_labels, valid)
                    left == SeqToSet(valid) \ SeqToSet(noisy_indices)
                IN  /\ printed' = Cardinality(SeqToSet(noisy_indices))
                    /\ \E order \in SetOrders(left) :
                           extract_ret' = Finish(order, length_sounds)
    /\ UNCHANGED <<raw_features, raw_labels, raw_patient_ids, patch_size,
                   filter_noisy>>
    /\ UNCHANGED <<deltaVars, delta_diff, featVars>>

NextExtract == Extract

SpecExtract == InitExtract /\ [][NextExtract]_vars

-----------------------------------------------------------------------------
(* Exact arithmetic on the values of a float array                         *)

NonFinite == <<0, 0>>

\* An array (a row of one) as numpy holds it: a table of computed entries.
\* Both operators are the identity; f @@ g with an empty g is f, written out.
NoEntries == [x \in {} |-> 0]
StoredRow(r) == r @@ NoEntries
Stored(m) == [t \in DOMAIN m |-> StoredRow(m[t])] @@ NoEntries

Abs(x) == IF x < 0 THEN -x ELSE x
Min(a, b) == IF a < b THEN a ELSE b
Max(a, b) == IF a > b THEN a ELSE b

RECURSIVE GCD(_, _)
GCD(a, b) == IF b = 0 THEN a ELSE GCD(b, a % b)

\* n / d in lowest terms with a positive denominator; x / 0 is non-finite
Frac(n, d) ==
    IF d = 0 THEN NonFinite
    ELSE LET g == GCD(Abs(n), Abs(d))
             s == IF d < 0 THEN -1 ELSE 1
         IN  <<(s * n) \div g, (s * d) \div g>>

FromInt(n) == <<n, 1>>
IsFinite(x) == x[2] # 0

RAdd(x, y) ==
    IF IsFinite(x) /\ IsFinite(y)
    THEN Frac(x[1] * y[2] + y[1] * x[2], x[2] * y[2]) ELSE NonFinite
RSub(x, y) ==
    IF IsFinite(x) /\ IsFinite(y)
    THEN Frac(x[1] * y[2] - y[1] * x[2], x[2] * y[2]) ELSE NonFinite
RScale(k, x) == IF IsFinite(x) THEN Frac(k * x[1], x[2]) ELSE NonFinite
RDiv(x, y) ==
    IF IsFinite(x) /\ IsFinite(y)
    THEN Frac(x[1] * y[2], x[2] * y[1]) ELSE NonFinite

\* A 2-D array is a function row -> (column -> value), both 0-based.
Rows(m) == Cardinality(DOMAIN m)
Cols(m) == Cardinality(DOMAIN m[0])

\* f[0] + ... + f[n-1]
RECURSIVE RSum(_, _)
RSum(f, n) == IF n = 0 THEN FromInt(0) ELSE RAdd(RSum(f, n - 1), f[n - 1])

\* np.sum(np.sum(m, axis=0))
SumAll(m) ==
    LET colsum == [c \in DOMAIN m[0] |->
                       RSum([t \in DOMAIN m |-> m[t][c]], Rows(m))]
    IN  RSum(colsum, Cols(m))

AsFloat(m) ==
    Stored([t \in DOMAIN m |-> [c \in DOMAIN m[t] |-> FromInt(m[t][c])]])

ArrayAdd(a, b) ==
    Stored(
    [t \in DOMAIN a |-> [c \in DOMAIN a[t] |-> RAdd(a[t][c], b[t][c])]])

-----------------------------------------------------------------------------
(* calculate_delta                                                         *)

ChannelCounts == {1, 2}
CoefValues == {-1, 0, 2}

RECURSIVE SumSquares(_)
SumSquares(n) == IF n <= 0 THEN 0 ELSE n * n + SumSquares(n - 1)

\* norm = 2 * np.sum(np.arange(1, delta_diff + 1) ** 2)
DeltaNorm(span) == 2 * SumSquares(span)

\* (n + 1) * (coefficients[min(T - 1, t + n), :] - coefficients[max(0, t - n), :])
\* for one n of range(delta_diff)
DeltaTerm(coef, t, n) ==
    StoredRow(
    LET hi == coef[Min(Rows(coef) - 1, t + n)]
        lo == coef[Max(0, t - n)]
    IN  [c \in DOMAIN coef[0] |-> RScale(n + 1, RSub(hi[c], lo[c]))])

\* (faulty variant: the accumulator starts from 1)
RECURSIVE DeltaAccumFromOne(_, _, _)
DeltaAccumFromOne(coef, t, span) ==
    StoredRow(
    IF span <= 0 THEN [c \in DOMAIN coef[0] |-> FromInt(1)]
    ELSE LET acc == DeltaAccumFromOne(coef, t, span - 1)
             term == DeltaTerm(coef, t, span - 1)
         IN  [c \in DOMAIN coef[0] |-> RAdd(acc[c], term[c])])

\* d_t after the loop over n in range(delta_diff), starting from d_t = 0
RECURSIVE DeltaAccum(_, _, _)
DeltaAccum(coef, t, span) ==
    StoredRow(
    IF span <= 0 THEN [c \in DOMAIN coef[0] |-> FromInt(0)]
    ELSE LET acc == DeltaAccum(coef, t, span - 1)
             term == DeltaTerm(coef, t, span - 1)
         IN  [c \in DOMAIN coef[0] |-> RAdd(acc[c], term[c])])

\* delta[t, :] = d_t / norm for every t.  With delta_diff < 1 the loop body
\* never runs and norm is 0: numpy divides 0 by 0 and stores nan.
calculate_delta(coef, span) ==
    Stored(
    [t \in DOMAIN coef |->
        LET d_t == DeltaAccum(coef, t, span)
        IN  [c \in DOMAIN coef[0] |-> RDiv(d_t[c], FromInt(DeltaNorm(span)))]])

Arrays(T, C, vals) == [0 .. T - 1 -> [0 .. C - 1 -> vals]]

\* the arrays with a single 1, and the zero array
UnitArrays(T, C) ==
    {[t \in 0 .. T - 1 |-> [c \in 0 .. C - 1 |->
          IF t = e[1] /\ c = e[2] THEN 1 ELSE 0]] :
        e \in (0 .. T) \X (0 .. C - 1)}

InitDelta ==
    /\ pc = "start"
    /\ \E T \in 1 .. MaxWindows, C \in ChannelCounts :
           /\ \E a \in Arrays(T, C, CoefValues) : coefficients = AsFloat(a)
           /\ \E b \in UnitArrays(T, C) : other = AsFloat(b)
    /\ delta_diff \in 0 .. MaxSpan
    /\ delta_ret = None
    /\ raw_features = None /\ raw_labels = None /\ raw_patient_ids = None
    /\ patch_size = 0 /\ filter_noisy = FALSE
    /\ extract_ret = None /\ printed = None
    /\ data = None /\ delta = FALSE /\ delta_delta = FALSE /\ feat_ret = None

\* calculate_delta applied to coefficients, to other and to their sum.  The
\* function has no parameter check and writes only its own result array.
CalculateDelta ==
    /\ pc = "start"
    /\ pc' = "done"
    /\ delta_ret' =
           [outcome |-> "ok",
            of_coefficients |-> calculate_delta(coefficients, delta_diff),
            of_other |-> calculate_delta(other, delta_diff),
            of_sum |-> calculate_delta(ArrayAdd(coefficients, other),
                                       delta_diff)]
    /\ UNCHANGED <<coefficients, other, delta_diff>>
    /\ UNCHANGED <<extractVars, featVars>>

NextDelta == CalculateDelta

SpecDelta == InitDelta /\ [][NextDelta]_vars

-----------------------------------------------------------------------------
(* get_mfccs and get_power_spectrum                                        *)

\* psd.T / mfcc.T
Transpose(m) ==
    Stored([t \in DOMAIN m[0] |-> [c \in DOMAIN m |-> m[c][t]]])

\* np.abs on the transform's values
AbsArray(m) ==
    Stored([t \in DOMAIN m |-> [c \in DOMAIN m[t] |-> Abs(m[t][c])]])

\* (faulty variant: the divisor is not divided by the number of windows)
NormalizeByTotal(block) ==
    Stored(
    LET normalization == SumAll(block)
    IN  [t \in DOMAIN block |-> [c \in DOMAIN block[t] |->
            RDiv(block[t][c], normalization)]])

\* block / (normalization / length), normalization = np.sum(np.sum(block, axis=0))
\* and length = block.shape[0].  A zero normalization divides by zero, which
\* numpy answers with nan or inf entries, not with an exception.
Normalize(block) ==
    Stored(
    LET length == Rows(block)
        normalization == SumAll(block)
        A == RDiv(normalization, FromInt(length))
    IN  [t \in DOMAIN block |-> [c \in DOMAIN block[t] |->
            RDiv(block[t][c], A)]])

\* np.concatenate([a, b], axis=1)
HStack(a, b) ==
    Stored(
    [t \in DOMAIN a |-> [c \in 0 .. Cols(a) + Cols(b) - 1 |->
        IF c < Cols(a) THEN a[t][c] ELSE b[t][c - Cols(a)]]])

\* (faulty variant: the delta flag is tested before delta_delta)
MfccColumnsDeltaFirst(mfcc, dl, dd, span) ==
    IF dl
    THEN HStack(mfcc, calculate_delta(mfcc, span))
    ELSE IF dd
    THEN LET delta_ == calculate_delta(mfcc, span)
             delta_delta_ == calculate_delta(delta_, span)
         IN  HStack(HStack(mfcc, delta_), delta_delta_)
    ELSE mfcc
\* lines 77-85: the columns kept for one recording
MfccColumns(mfcc, dl, dd, span) ==
    IF dd
    THEN LET delta_ == calculate_delta(mfcc, span)
             delta_delta_ == calculate_delta(delta_, span)
         IN  HStack(HStack(mfcc, delta_), delta_delta_)
    ELSE IF dl
    THEN HStack(mfcc, calculate_delta(mfcc, span))
    ELSE mfcc

\* one pass of the loop of get_mfccs, from the (n_mfcc, windows) array that
\* librosa.feature.mfcc returned for the recording
MfccOfRecording(transformed, dl, dd, span) ==
    MfccColumns(Normalize(AsFloat(Transpose(transformed))), dl, dd, span)

\* one pass of the loop of get_power_spectrum, from the (frequencies,
\* windows) array that scipy.signal.stft returned for the filtered recording
PsdOfRecording(transformed) ==
    Normalize(AsFloat(Transpose(AbsArray(transformed))))

\* The transforms that are tried: one recording of any shape, or two
\* single-channel recordings of one or two windows.
SingleBatches ==
    UNION {{[i \in {0} |-> m] : m \in Arrays(C, T, CoefValues)} :
               C \in ChannelCounts, T \in 1 .. MaxWindows}
SmallArrays == Arrays(1, 1, CoefValues) \cup Arrays(1, 2, CoefValues)
PairBatches == [{0, 1} -> SmallArrays]

InitFeatures ==
    /\ pc = "start"
    /\ data \in SingleBatches \cup PairBatches
    /\ delta \in BOOLEAN
    /\ delta_delta \in BOOLEAN
    /\ delta_diff \in 1 .. MaxSpan
    /\ feat_ret = None
    /\ raw_features = None /\ raw_labels = None /\ raw_patient_ids = None
    /\ patch_size = 0 /\ filter_noisy = FALSE
    /\ extract_ret = None /\ printed = None
    /\ coefficients = None /\ other = None /\ delta_ret = None

GetMfccs ==
    /\ pc = "start"
    /\ pc' = "done"
    /\ feat_ret' =
           [op |-> "get_mfccs",
            out |-> [i \in DOMAIN data |->
                        MfccOfRecording(data[i], delta, delta_delta,
                                        delta_diff)]]
    /\ UNCHANGED <<data, delta, delta_delta, delta_diff>>
    /\ UNCHANGED <<extractVars, deltaVars>>

GetPowerSpectrum ==
    /\ pc = "start"
    /\ pc' = "done"
    /\ feat_ret' =
           [op |-> "get_power_spectrum",
            out |-> [i \in DOMAIN data |-> PsdOfRecording(data[i])]]
    /\ UNCHANGED <<data, delta, delta_delta, delta_diff>>
    /\ UNCHANGED <<extractVars, deltaVars>>

NextFeatures == GetMfccs \/ GetPowerSpectrum

SpecFeatures == InitFeatures /\ [][NextFeatures]_vars

-----------------------------------------------------------------------------
(* The three entry points together                                         *)

Init == InitExtract \/ InitDelta \/ InitFeatures

Next ==
    \/ raw_features # None /\ Extract
    \/ coefficients # None /\ CalculateDelta
    \/ data # None /\ (GetMfccs \/ GetPowerSpectrum)

Spec == Init /\ [][Next]_vars

-----------------------------------------------------------------------------
(* Properties of calculate_delta                                           *)

\* The derivative as the claim states it: the term of weight n uses the rows
\* at offsets +n and -n (clamped), for n = 1 .. span.
RECURSIVE ClaimedNumerator(_, _, _, _)
ClaimedNumerator(coef, t, c, n) ==
    IF n <= 0 THEN FromInt(0)
    ELSE RAdd(ClaimedNumerator(coef, t, c, n - 1),
              RScale(n, RSub(coef[Min(Rows(coef) - 1, t + n)][c],
                             coef[Max(0, t - n)][c])))

ClaimedDelta(coef, t, c, span) ==
    RDiv(ClaimedNumerator(coef, t, c, span), FromInt(2 * SumSquares(span)))

\* C2 (as claimed): for span >= 1 every entry of the result is
\* [ sum_{n=1..span} n * (coeff[min(T-1,t+n)] - coeff[max(0,t-n)]) ]
\* / (2 * sum_{n=1..span} n^2).
C2_DeltaFormula ==
    (pc = "done" /\ delta_diff >= 1) =>
        \A t \in DOMAIN coefficients : \A c \in DOMAIN coefficients[t] :
            delta_ret.of_coefficients[t][c]
                = ClaimedDelta(coefficients, t, c, delta_diff)

\* C7: for span >= 1 the derivative of a sum of two arrays is the sum of
\* their derivatives, at every row (the clamped boundary rows included) and
\* channel.
C7_Additive ==
    (pc = "done" /\ delta_diff >= 1) =>
        delta_ret.of_sum
            = ArrayAdd(delta_ret.of_coefficients, delta_ret.of_other)

C7_Witness ==
    /\ pc = "done" /\ delta_diff >= 1
    /\ Rows(coefficients) >= 2
    /\ delta_ret.of_coefficients[0][0] \notin {FromInt(0), NonFinite}
    /\ delta_ret.of_other[0][0] \notin {FromInt(0), NonFinite}
    /\ delta_ret.of_sum[0][0] # delta_ret.of_coefficients[0][0]

\* C10 (as claimed): a call with span < 1 fails with InvalidSpanError and
\* returns no array; a call with span >= 1 does not fail.
C10_RejectsInvalidSpan ==
    pc = "done" =>
        IF delta_diff < 1
        THEN delta_ret.outcome = "InvalidSpanError"
        ELSE delta_ret.outcome = "ok"

-----------------------------------------------------------------------------
(* Properties of get_mfccs and get_power_spectrum                          *)

Windows(i) == Cols(data[i])
Channels(i) == Rows(data[i])

\* columns k*n .. k*n + n-1 of the output of recording i, n = Channels(i)
OutBlock(i, k) ==
    Stored([t \in DOMAIN feat_ret.out[i] |-> [c \in 0 .. Channels(i) - 1 |->
        feat_ret.out[i][t][k * Channels(i) + c]]])

\* the unnormalized (windows, channels) block of recording i
RawBlock(i) ==
    IF feat_ret.op = "get_mfccs"
    THEN AsFloat(Transpose(data[i]))
    ELSE AsFloat(Transpose(AbsArray(data[i])))

\* C8: get_mfccs emits [base, delta, delta-delta] (3*n_mfcc columns) when
\* delta_delta is set, whatever delta is; else [base, delta] (2*n_mfcc) when
\* delta is set; else the base block alone.  The rows are the windows of the
\* base block, the base block is the normalized one, and each derivative
\* block is calculate_delta of the block to its left with the same span.
C8_ColumnSelection ==
    (pc = "done" /\ feat_ret.op = "get_mfccs") =>
        \A i \in DOMAIN data :
            LET out == feat_ret.out[i]
                n == Channels(i)
            IN  /\ Rows(out) = Windows(i)
                /\ Cols(out) = IF delta_delta THEN 3 * n
                               ELSE IF delta THEN 2 * n ELSE n
                /\ OutBlock(i, 0) = Normalize(RawBlock(i))
                /\ (delta_delta \/ delta) =>
                       OutBlock(i, 1)
                           = calculate_delta(OutBlock(i, 0), delta_diff)
                /\ delta_delta =>
                       OutBlock(i, 2)
                           = calculate_delta(OutBlock(i, 1), delta_diff)

C8_Witness ==
    /\ pc = "done" /\ feat_ret.op = "get_mfccs"
    /\ delta_delta /\ ~delta /\ delta_diff = 2
    /\ Windows(0) >= 3 /\ Channels(0) = 2
    /\ Cols(feat_ret.out[0]) = 6
    /\ \E t \in DOMAIN feat_ret.out[0] :
           feat_ret.out[0][t][4] \notin {FromInt(0), NonFinite}

-----------------------------------------------------------------------------
(* Properties of extract                                                   *)

Returned == pc = "done" /\ extract_ret.outcome = "ok"

Retained == SeqToSet(extract_ret.valid_indices)

PassedLength == {j \in Indices : raw_features[j].len >= patch_size}

\* The zero-based label sequence of lab has an adjacent pair that is neither
\* a hold nor a cyclic advance.
HasInvalidTransition(lab) ==
    \E t \in 2 .. Len(lab) :
        /\ lab[t] - 1 # lab[t - 1] - 1
        /\ lab[t] - 1 # ((lab[t - 1] - 1) + 1) % 4

NoisyRecordings == {j \in PassedLength : HasInvalidTransition(raw_labels[j])}

\* C1: with filter_noisy, a recording that passed the length filter is
\* absent from the returned valid_indices exactly when its zero-based label
\* sequence has an invalid transition; [1,2,3,4,1,2] is retained and
\* [1,2,1,4] is excluded.
C1_NoisyExclusion ==
    (Returned /\ filter_noisy) =>
        \A j \in PassedLength :
            /\ j \notin Retained <=> HasInvalidTransition(raw_labels[j])
            /\ raw_labels[j] = <<1, 2, 3, 4, 1, 2>> => j \in Retained
            /\ raw_labels[j] = <<1, 2, 1, 4>> => j \notin Retained

C1_Witness ==
    /\ Returned /\ filter_noisy
    /\ \E j, k \in PassedLength :
           /\ raw_labels[j] = <<1, 2, 3, 4, 1, 2>> /\ j \in Retained
           /\ raw_labels[k] = <<1, 2, 1, 4>> /\ k \notin Retained

\* C3 (as claimed): with filter_noisy the returned valid_indices lists the
\* length-valid indices minus the noisy ones in strictly ascending order,
\* and features, labels and patient_ids are the inputs re-indexed by it.
C3_AscendingReindexed ==
    (Returned /\ filter_noisy) =>
        LET v == extract_ret.valid_indices
        IN  /\ SeqToSet(v) = PassedLength \ NoisyRecordings
            /\ \A k \in 1 .. Len(v) - 1 : v[k] < v[k + 1]
            /\ Len(extract_ret.features) = Len(v)
            /\ Len(extract_ret.labels) = Len(v)
            /\ Len(extract_ret.patient_ids) = Len(v)
            /\ \A k \in 1 .. Len(v) :
                   /\ extract_ret.features[k] = raw_features[v[k]]
                   /\ extract_ret.labels[k] = raw_labels[v[k]]
                   /\ extract_ret.patient_ids[k] = raw_patient_ids[v[k]]

\* C4: every returned index passed the length filter, every index left out
\* is too short or (with filter_noisy) noisy, and without filter_noisy the
\* returned indices are exactly the ones that passed the length filter.
C4_LengthFilter ==
    Returned =>
        /\ \A j \in Retained : raw_features[j].len >= patch_size
        /\ \A j \in Indices \ Retained :
               \/ raw_features[j].len < patch_size
               \/ filter_noisy /\ HasInvalidTransition(raw_labels[j])
        /\ ~filter_noisy => Retained = PassedLength

C4_Witness ==
    /\ Returned /\ ~filter_noisy
    /\ \E j \in Retained : raw_features[j].len = patch_size
    /\ \E j \in Indices \ Retained : raw_features[j].len < patch_size

\* C5 (as claimed): with filter_noisy and at least one recording that passed
\* the length filter, extract returns normally, also when every such
\* recording is noisy, and the count it prints is the number of distinct
\* noisy recordings.
C5_NoisyNeverFails ==
    (pc = "done" /\ filter_noisy /\ PassedLength # {}) =>
        /\ extract_ret.outcome = "ok"
        /\ printed = Cardinality(NoisyRecordings)

\* C6: the returned length_sounds has one entry per original recording, the
\* length of that recording, whatever was filtered out.
C6_LengthsForAll ==
    Returned =>
        /\ DOMAIN extract_ret.length_sounds = Indices
        /\ \A j \in Indices :
               extract_ret.length_sounds[j] = raw_features[j].len

C6_Witness ==
    /\ Returned
    /\ patch_size = 100
    /\ \E j \in Indices \ Retained :
           /\ raw_features[j].len = 50
           /\ extract_ret.length_sounds[j] = 50
    /\ \E j \in Retained : extract_ret.length_sounds[j] = 150

=============================================================================
